---- MODULE Spec2Model ----
(***************************************************************************)
(* Model of src/1_foundations/app.py: the provider-fallback chat loop      *)
(* Me.chat, the tool dispatch Me.handle_tool_call, the two recording       *)
(* tools, the notifier push and the resolver get_external_llm_key.         *)
(***************************************************************************)
EXTENDS Integers, Sequences, FiniteSets, TLC

\* ---- bounds of the model ------------------------------------------------
\* The providers request at most this many tool calls in one turn, spread
\* over its responses in any way (two in one response, one in each of
\* two, ...); after that they answer without requests.
MaxScanCalls == 2    \* provider-fallback runs
MaxCalls == 2        \* tool-dispatch runs
MaxEnvChanges == 1   \* changes of the process environment during one turn

\* ---- values ---------------------------------------------------------------
None == "None"       \* Python's None where a string may stand instead
Unset == "<unset>"   \* os.getenv of a variable that is not set

OUT_OF_TOKENS_MESSAGE ==
  "We are currently unable to process your request because your token allocation appears to be exhausted across all supported providers (OpenAI, Groq, Gemini, and DeepSeek). Please review your usage limits or update your billing details before trying again."

\* (changed: a row of the list repeated in place of another)
ChatProvidersRepeated ==
  << [provider |-> "openai",   env_var |-> "OPENAI_API_KEY"],
     [provider |-> "groq",     env_var |-> "GROQ_API_KEY"],
     [provider |-> "openai",   env_var |-> "OPENAI_API_KEY"],
     [provider |-> "deepseek", env_var |-> "DEEPSEEK_API_KEY"] >>

\* the provider list of the for loop in Me.chat, in priority order
ChatProviders ==
  << [provider |-> "openai",   env_var |-> "OPENAI_API_KEY"],
     [provider |-> "groq",     env_var |-> "GROQ_API_KEY"],
     [provider |-> "gemini",   env_var |-> "GEMINI_API_KEY"],
     [provider |-> "deepseek", env_var |-> "DEEPSEEK_API_KEY"] >>

NumProviders == Len(ChatProviders)

ProviderNames == {ChatProviders[i].provider : i \in 1..NumProviders}

EnvVars == {ChatProviders[i].env_var : i \in 1..NumProviders}

\* values an environment variable can hold: unset, empty, a key
EnvValues == {Unset, "", "sk-1"}

\* (changed: "if api_key is None", an empty value is taken for a key)
TruthyNotNone(api_key) == api_key # Unset

\* Python truthiness of os.getenv's result: None and "" are falsy
Truthy(api_key) == api_key # Unset /\ api_key # ""

\* ---- tool call requests ---------------------------------------------------
\* json.loads(arguments): arguments is text; valid tells whether it parses,
\* obj is the parsed object, a set of <<key, value>> pairs
Args(pairs) == [valid |-> TRUE, obj |-> pairs]

BadJson == [valid |-> FALSE, obj |-> {}]

\* the requests a provider may put in a response: tool name and arguments
RequestKinds ==
  { [name |-> "record_user_details",     arguments |-> Args({<<"email", "a@b.com">>})],
    [name |-> "record_user_details",     arguments |-> Args({})],
    [name |-> "record_user_details",     arguments |-> Args({<<"email", "a@b.com">>, <<"phone", "555">>})],
    [name |-> "record_user_details",     arguments |-> BadJson],
    [name |-> "record_unknown_question", arguments |-> Args({<<"question", "What is your hourly rate?">>})],
    [name |-> "lookup_salary",           arguments |-> Args({})],
    [name |-> "push",                    arguments |-> Args({<<"text", "hello">>})],
    [name |-> "tools",                   arguments |-> Args({})] }

Keys(obj) == {kv[1] : kv \in obj}

Get(obj, key, default) ==
  IF key \in Keys(obj) THEN (CHOOSE kv \in obj : kv[1] = key)[2] ELSE default

\* module-level functions of app.py that globals().get can return, with the
\* parameters of their signatures
Required(tool) ==
  CASE tool = "record_user_details"     -> {"email"}
    [] tool = "record_unknown_question" -> {"question"}
    [] tool = "push"                    -> {"text"}
    [] OTHER                            -> {}

Optional(tool) ==
  CASE tool = "record_user_details" -> {"name", "notes"}
    [] OTHER                        -> {}

Functions == {"record_user_details", "record_unknown_question", "push"}

\* module-level names bound to objects that are truthy but not callable
NonCallables == {"tools"}

\* globals().get(tool_name): the kind of object found
GlobalsGet(tool_name) ==
  IF tool_name \in Functions THEN "function"
  ELSE IF tool_name \in NonCallables THEN "object"
  ELSE None

\* the text each function hands to push, as the parts of its f-string
PushText(tool, obj) ==
  CASE tool = "record_user_details" ->
         << "Recording", Get(obj, "name", "Name not provided"),
            "with email", Get(obj, "email", None),
            "and notes", Get(obj, "notes", "not provided") >>
    [] tool = "record_unknown_question" ->
         << "Recording", Get(obj, "question", None) >>
    [] OTHER -> << Get(obj, "text", None) >>

\* the value each function returns
ReturnValue(tool) ==
  IF tool \in {"record_user_details", "record_unknown_question"}
  THEN "RECORDED_OK" ELSE "NONE"

\* json.dumps of a tool's result
JsonDumps(value) ==
  CASE value = "RECORDED_OK" -> "{\"recorded\": \"ok\"}"
    [] value = "EMPTY"       -> "{}"
    [] OTHER                 -> "null"

\* tool(**arguments) if tool else {}   for one request; postFails tells
\* whether requests.post raises in push
InvokeTool(tc, postFails) ==
  IF ~tc.arguments.valid
  THEN [exc |-> "JSONDecodeError", value |-> "NONE", sent |-> <<>>]
  ELSE LET obj == tc.arguments.obj
           kind == GlobalsGet(tc.name)
       IN  IF kind = None
           THEN [exc |-> None, value |-> "EMPTY", sent |-> <<>>]
           ELSE IF kind = "object"
           THEN [exc |-> "TypeError", value |-> "NONE", sent |-> <<>>]
           ELSE IF ~(Required(tc.name) \subseteq Keys(obj)
                     /\ Keys(obj) \subseteq Required(tc.name) \cup Optional(tc.name))
           THEN [exc |-> "TypeError", value |-> "NONE", sent |-> <<>>]
           ELSE IF postFails
           THEN [exc |-> "ConnectionError", value |-> "NONE", sent |-> <<>>]
           ELSE [exc |-> None, value |-> ReturnValue(tc.name),
                 sent |-> << PushText(tc.name, obj) >>]

ToolMessage(tc, value) ==
  [role |-> "tool", content |-> JsonDumps(value), tool_call_id |-> tc.id]

\* Me.handle_tool_call: the loop over tool_calls from position i on;
\* failAt is the position of the request whose push raises (0: none does)
RECURSIVE HandleFrom(_, _, _, _, _)
HandleFrom(tool_calls, i, failAt, results, sent) ==
  IF i > Len(tool_calls)
  THEN [exc |-> None, results |-> results, sent |-> sent]
  ELSE LET out == InvokeTool(tool_calls[i], failAt = i)
       IN  IF out.exc # None
           THEN [exc |-> out.exc, results |-> <<>>, sent |-> sent \o out.sent]
           ELSE HandleFrom(tool_calls, i + 1, failAt,
                           Append(results, ToolMessage(tool_calls[i], out.value)),
                           sent \o out.sent)

handle_tool_call(tool_calls, failAt) == HandleFrom(tool_calls, 1, failAt, <<>>, <<>>)

\* ---- responses of a provider ---------------------------------------------
NoResponse == [finish_reason |-> None, content |-> None, tool_calls |-> <<>>]

Texts == {"Thanks, I'll be in touch!"}

\* sequences of 1..maxlen requests, with call ids unique within the turn
CallSeqs(kinds, maxlen, firstId) ==
  UNION { { [j \in 1..n |-> [id |-> firstId + j, name |-> ks[j].name,
                              arguments |-> ks[j].arguments]]
            : ks \in [1..n -> kinds] }
          : n \in 1..maxlen }

TextResponses ==
  { [finish_reason |-> "stop", content |-> t, tool_calls |-> <<>>] : t \in Texts }

\* a response that carries tool call requests; finish_reason is "tool_calls",
\* or "stop" as some OpenAI-compatible endpoints report it
ToolResponses(kinds, maxlen, firstId) ==
  { [finish_reason |-> fr, content |-> None, tool_calls |-> cs]
    : fr \in {"tool_calls", "stop"}, cs \in CallSeqs(kinds, maxlen, firstId) }

Responses(kinds, maxlen, firstId) ==
  TextResponses \cup ToolResponses(kinds, maxlen, firstId)

\* response.choices[0].message as appended to the transcript
AssistantMessage(r) ==
  [role |-> "assistant", content |-> r.content, tool_calls |-> r.tool_calls]

\* ---- inputs of Me.chat -----------------------------------------------------
SystemMessage == [role |-> "system", content |-> "system_prompt"]

UserMessage(m) == [role |-> "user", content |-> m]

Histories ==
  { <<>>,
    << [role |-> "user", content |-> "Hi"],
       [role |-> "assistant", content |-> "Hello"] >> }

UserTexts == {"My email is a@b.com, please reach out"}

\* ---- get_external_llm_key ---------------------------------------------------
\* (changed: two rows of provider_env_map exchanged)
ResolverProvidersReordered ==
  << [provider |-> "groq",     env_var |-> "GROQ_API_KEY"],
     [provider |-> "openai",   env_var |-> "OPENAI_API_KEY"],
     [provider |-> "gemini",   env_var |-> "GEMINI_API_KEY"],
     [provider |-> "deepseek", env_var |-> "DEEPSEEK_API_KEY"] >>

\* provider_env_map, in priority order
ResolverProviders ==
  << [provider |-> "openai",   env_var |-> "OPENAI_API_KEY"],
     [provider |-> "groq",     env_var |-> "GROQ_API_KEY"],
     [provider |-> "gemini",   env_var |-> "GEMINI_API_KEY"],
     [provider |-> "deepseek", env_var |-> "DEEPSEEK_API_KEY"] >>

\* (changed: "if api_key is not None", an empty value counts as a key)
IfApiKeyNotNone(api_key) == api_key # Unset

\* if api_key:
IfApiKey(api_key) == api_key # Unset /\ api_key # ""

\* what a call of get_external_llm_key gives: the tuple returned, or the
\* exception raised; NotCalled before any call
NotCalled == [provider |-> None, api_key |-> None, exc |-> None]

Returned(provider, api_key) == [provider |-> provider, api_key |-> api_key, exc |-> None]

RaisedRuntimeError == [provider |-> None, api_key |-> None, exc |-> "RuntimeError"]

\* the for loop of get_external_llm_key from row i on, under environment e
RECURSIVE ResolveFrom(_, _)
ResolveFrom(e, i) ==
  IF i > Len(ResolverProviders)
  THEN RaisedRuntimeError
  ELSE IF IfApiKey(e[ResolverProviders[i].env_var])
       THEN Returned(ResolverProviders[i].provider, e[ResolverProviders[i].env_var])
       ELSE ResolveFrom(e, i + 1)

get_external_llm_key(e) == ResolveFrom(e, 1)

\* ---- state -----------------------------------------------------------------
VARIABLES
  pc,          \* position of Me.chat: idle, scan, dispatch, done, exhausted, raised
  env,         \* os.environ restricted to the four credential variables
  envChanges,  \* changes of env since the turn began
  reliable,    \* providers whose completion attempt never raises
  history,     \* the caller's history list
  messages,    \* the transcript of the turn
  idx,         \* position of the for loop in ChatProviders
  response,    \* response, NoResponse for None
  last_error,  \* last_error
  scanned,     \* the iterations of the for loop done in this step
  attempts,    \* completion attempts per provider in this turn
  pushed,      \* notifications posted in this turn
  result,      \* what chat handed to its caller (value or exception)
  resolved,    \* what the last call of get_external_llm_key gave
  tid,         \* the turn that is running, of two calls of chat in flight
  suspended,   \* the frame of the other call of chat
  given,       \* the caller's history list as it was handed to chat
  log          \* per turn, what the turn was given: its message, the responses

vars == << pc, env, envChanges, reliable, history, messages, idx, response,
           last_error, scanned, attempts, pushed, result, resolved,
           tid, suspended, given, log >>

\* the local variables of a call of chat, with what it sent and handed back
Frame ==
  [ pc |-> pc, messages |-> messages, idx |-> idx, response |-> response,
    last_error |-> last_error, scanned |-> scanned, attempts |-> attempts,
    pushed |-> pushed, result |-> result ]

\* the frame of a call of chat that has not begun
IdleFrame ==
  [ pc |-> "idle", messages |-> <<>>, idx |-> 0, response |-> NoResponse,
    last_error |-> None, scanned |-> <<>>,
    attempts |-> [p \in ProviderNames |-> 0], pushed |-> <<>>, result |-> None ]

Turns == {1, 2}

\* the state outside the running turn of Me.chat
others == << resolved, tid, suspended, given >>

Terminal == {"done", "exhausted", "raised"}

Running == {"scan", "dispatch"}

Envs == [EnvVars -> EnvValues]

Init ==
  /\ pc = "idle"
  /\ env \in Envs
  /\ envChanges = 0
  /\ reliable \in {{}} \cup {{p} : p \in ProviderNames}
  /\ history = <<>>
  /\ messages = <<>>
  /\ idx = 0
  /\ response = NoResponse
  /\ last_error = None
  /\ scanned = <<>>
  /\ attempts = [p \in ProviderNames |-> 0]
  /\ pushed = <<>>
  /\ result = None
  /\ resolved = NotCalled
  /\ tid = 1
  /\ suspended = IdleFrame
  /\ given = <<>>
  /\ log = [t \in Turns |-> <<>>]

\* ---- Me.chat ---------------------------------------------------------------
\* the first line of chat, up to the first iteration of the for loop
Chat(message, hist) ==
  /\ UNCHANGED others
  /\ pc \in {"idle"} \cup Terminal
  /\ pc' = "scan"
  /\ history' = hist
  /\ messages' = <<SystemMessage>> \o hist \o <<UserMessage(message)>>
  /\ idx' = 1
  /\ response' = NoResponse
  /\ last_error' = None
  /\ scanned' = <<>>
  /\ attempts' = [p \in ProviderNames |-> 0]
  /\ pushed' = <<>>
  /\ result' = None
  /\ envChanges' = 0
  /\ UNCHANGED << env, reliable >>

\* (changed: no break after a successful attempt)
ForNextNoBreak(i, broke) ==
  IF i = NumProviders THEN 0 ELSE i + 1

\* (changed: the loop is left after the first attempt, failed or not)
ForNextNoFallback(i, broke) == 0

\* the for loop: the next position after iteration i; 0 leaves the loop
ForNext(i, broke) ==
  IF broke \/ i = NumProviders THEN 0 ELSE i + 1

Advance(broke) ==
  /\ idx' = ForNext(idx, broke)
  /\ pc' = IF idx' = 0 THEN "dispatch" ELSE "scan"

Scanning == pc = "scan" /\ idx \in 1..NumProviders

\* if not api_key: continue
SkipProvider ==
  /\ UNCHANGED others
  /\ Scanning
  /\ ~Truthy(env[ChatProviders[idx].env_var])
  /\ scanned' = Append(scanned, [provider |-> ChatProviders[idx].provider, outcome |-> "skip"])
  /\ Advance(FALSE)
  /\ UNCHANGED << env, envChanges, reliable, history, messages, response,
                  last_error, attempts, pushed, result >>

\* client.chat.completions.create raises: last_error = e; continue
AttemptFails ==
  /\ UNCHANGED others
  /\ Scanning
  /\ Truthy(env[ChatProviders[idx].env_var])
  /\ ChatProviders[idx].provider \notin reliable
  /\ last_error' = ChatProviders[idx].provider
  /\ scanned' = Append(scanned, [provider |-> ChatProviders[idx].provider, outcome |-> "fail"])
  /\ attempts' = [attempts EXCEPT ![ChatProviders[idx].provider] = @ + 1]
  /\ Advance(FALSE)
  /\ UNCHANGED << env, envChanges, reliable, history, messages, response,
                  pushed, result >>

\* client.chat.completions.create returns r: response = r; break
AttemptSucceeds(r) ==
  /\ UNCHANGED others
  /\ Scanning
  /\ Truthy(env[ChatProviders[idx].env_var])
  /\ response' = r
  /\ scanned' = Append(scanned, [provider |-> ChatProviders[idx].provider, outcome |-> "ok"])
  /\ attempts' = [attempts EXCEPT ![ChatProviders[idx].provider] = @ + 1]
  /\ Advance(TRUE)
  /\ UNCHANGED << env, envChanges, reliable, history, messages,
                  last_error, pushed, result >>

\* (changed: the last error is handed to the caller when there is one)
UnavailableResultLeaksError(err) ==
  IF err = None THEN OUT_OF_TOKENS_MESSAGE ELSE err

\* the value returned when response is None
UnavailableResult(err) == OUT_OF_TOKENS_MESSAGE

\* if response is None: return OUT_OF_TOKENS_MESSAGE
ReturnUnavailable ==
  /\ UNCHANGED others
  /\ pc = "dispatch"
  /\ response = NoResponse
  /\ pc' = "exhausted"
  /\ result' = UnavailableResult(last_error)
  /\ UNCHANGED << env, envChanges, reliable, history, messages, idx, response,
                  last_error, scanned, attempts, pushed >>

\* (changed: a response is never sent to handle_tool_call)
WantsToolsNever(r) == FALSE

\* (changed: the next step resumes at the provider that answered)
ScanStartAtWinner(won) == won

\* the position at which the for loop starts in the next iteration of the
\* while loop; won is the position of the provider that answered this one
ScanStart(won) == 1

\* the test that sends a response to handle_tool_call
WantsTools(r) == r.finish_reason = "tool_calls"

\* (changed: messages.extend(results) before messages.append(message))
ExtendResultsFirst(msgs, r, results) == (msgs \o results) \o <<AssistantMessage(r)>>

\* (changed: the message overwrites the last element, messages[-1] = message)
ExtendOverLast(msgs, r, results) ==
  (SubSeq(msgs, 1, Len(msgs) - 1) \o <<AssistantMessage(r)>>) \o results

\* messages.append(message); messages.extend(results)
Extend(msgs, r, results) == Append(msgs, AssistantMessage(r)) \o results

\* (changed: messages is the caller's list, messages = history with the
\* system message inserted in front, so every append lands in history)
CallerHistoryShared(hist, msgs) == SubSeq(msgs, 2, Len(msgs))

\* the caller's list after append and extend on messages: messages is the
\* new list that [system] + history + [user] made, history is not written
CallerHistory(hist, msgs) == hist

\* finish_reason == "tool_calls": handle_tool_call, append, extend, and the
\* head of the next iteration of the while loop
ProcessToolCalls(failAt) ==
  /\ UNCHANGED others
  /\ pc = "dispatch"
  /\ response # NoResponse
  /\ WantsTools(response)
  /\ LET out == handle_tool_call(response.tool_calls, failAt)
     IN  /\ pushed' = pushed \o out.sent
         /\ IF out.exc # None
            THEN /\ pc' = "raised"
                 /\ result' = out.exc
                 /\ UNCHANGED << messages, idx, response, last_error, scanned >>
            ELSE /\ messages' = Extend(messages, response, out.results)
                 /\ pc' = "scan"
                 /\ idx' = ScanStart(Len(scanned))
                 /\ response' = NoResponse
                 /\ last_error' = None
                 /\ scanned' = <<>>
                 /\ UNCHANGED result
  /\ history' = CallerHistory(history, messages')
  /\ UNCHANGED << env, envChanges, reliable, attempts >>

\* else: done = True; return response.choices[0].message.content
ReturnContent ==
  /\ UNCHANGED others
  /\ pc = "dispatch"
  /\ response # NoResponse
  /\ ~WantsTools(response)
  /\ pc' = "done"
  /\ result' = response.content
  /\ UNCHANGED << env, envChanges, reliable, history, messages, idx, response,
                  last_error, scanned, attempts, pushed >>

\* the environment of the process changes while a turn runs
EnvChange(var, val) ==
  /\ UNCHANGED others
  /\ pc \in Running
  /\ envChanges < MaxEnvChanges
  /\ env[var] # val
  /\ env' = [env EXCEPT ![var] = val]
  /\ envChanges' = envChanges + 1
  /\ UNCHANGED << pc, reliable, history, messages, idx, response, last_error,
                  scanned, attempts, pushed, result, log >>

\* the messages appended to the transcript since the turn began
Appended == SubSeq(messages, Len(history) + 3, Len(messages))

\* the tool calls of this turn answered so far
CallsAnswered == Cardinality({i \in 1..Len(Appended) : Appended[i].role = "tool"})

\* the assistant messages appended so far: the tool-call rounds of the turn
Rounds == Cardinality({i \in 1..Len(Appended) : Appended[i].role = "assistant"})

TurnStep(kinds, maxcalls) ==
  \/ SkipProvider /\ UNCHANGED log
  \/ AttemptFails /\ UNCHANGED log
  \/ \E r \in Responses(kinds, maxcalls - CallsAnswered, Len(messages)) :
        AttemptSucceeds(r) /\ UNCHANGED log
  \/ ReturnUnavailable /\ UNCHANGED log
  \/ \E failAt \in 0..maxcalls : ProcessToolCalls(failAt) /\ UNCHANGED log
  \/ ReturnContent /\ UNCHANGED log

NewTurn == \E m \in UserTexts, h \in Histories : Chat(m, h) /\ UNCHANGED log

\* ---- provider-fallback runs: every environment, one kind of request ----
ScanKinds == { k \in RequestKinds : k.name = "record_user_details"
                                      /\ k.arguments = Args({<<"email", "a@b.com">>}) }

Next ==
  \/ NewTurn
  \/ TurnStep(ScanKinds, MaxScanCalls)

Spec == Init /\ [][Next]_vars

\* the code runs a started turn on: each step of the turn is taken
FairSpec == Spec /\ WF_vars(TurnStep(ScanKinds, MaxScanCalls))

\* ---- tool-dispatch runs: one environment, every kind of request --------
ToolsEnv ==
  [v \in EnvVars |-> CASE v = "OPENAI_API_KEY" -> ""
                        [] v = "GROQ_API_KEY"   -> "sk-1"
                        [] OTHER                -> Unset]

InitTools ==
  /\ Init
  /\ env = ToolsEnv
  /\ reliable = {}

NextTools ==
  \/ NewTurn
  \/ TurnStep(RequestKinds, MaxCalls)

SpecTools == InitTools /\ [][NextTools]_vars

\* ---- runs with calls of get_external_llm_key ------------------------------
\* a call of get_external_llm_key, at any time
Preflight ==
  /\ resolved' = get_external_llm_key(env)
  /\ UNCHANGED << pc, env, envChanges, reliable, history, messages, idx, response,
                  last_error, scanned, attempts, pushed, result,
                  tid, suspended, given, log >>

NextResolve ==
  \/ Next
  \/ Preflight

SpecResolve == Init /\ [][NextResolve]_vars

\* ---- runs in which the environment changes under a running turn --------
InitEnv ==
  /\ Init
  /\ reliable = {}

NextEnv ==
  \/ Next
  \/ \E var \in EnvVars, val \in EnvValues : EnvChange(var, val)

SpecEnv == InitEnv /\ [][NextEnv]_vars

\* ---- two calls of chat in flight, started from one history list ----------
\* the tool calls a turn may be asked for in these runs
MaxTurnCalls == 1

\* one entry of a turn's log; the fields an entry does not use are None
Entry(op, message, r, failAt, err) ==
  [op |-> op, message |-> message, response |-> r, failAt |-> failAt,
   last_error |-> err]

Logged(e) == [log EXCEPT ![tid] = Append(@, e)]

\* the worker thread of the other call is scheduled: the frames change places
Switch ==
  /\ tid' = 3 - tid
  /\ suspended' = Frame
  /\ pc' = suspended.pc
  /\ messages' = suspended.messages
  /\ idx' = suspended.idx
  /\ response' = suspended.response
  /\ last_error' = suspended.last_error
  /\ scanned' = suspended.scanned
  /\ attempts' = suspended.attempts
  /\ pushed' = suspended.pushed
  /\ result' = suspended.result
  /\ UNCHANGED << env, envChanges, reliable, history, resolved, given, log >>

InitTurns ==
  /\ pc = "idle"
  /\ env = ToolsEnv
  /\ envChanges = 0
  /\ reliable = {}
  /\ history \in Histories
  /\ messages = <<>>
  /\ idx = 0
  /\ response = NoResponse
  /\ last_error = None
  /\ scanned = <<>>
  /\ attempts = [p \in ProviderNames |-> 0]
  /\ pushed = <<>>
  /\ result = None
  /\ resolved = NotCalled
  /\ tid = 1
  /\ suspended = IdleFrame
  /\ given = history
  /\ log = [t \in Turns |-> <<>>]

NextTurns ==
  \/ \E m \in UserTexts :
        /\ pc = "idle"
        /\ Chat(m, history)
        /\ log' = Logged(Entry("chat", m, NoResponse, 0, None))
  \/ SkipProvider /\ UNCHANGED log
  \/ AttemptFails /\ UNCHANGED log
  \/ \E r \in Responses(ScanKinds, MaxTurnCalls - CallsAnswered, Len(messages)) :
        AttemptSucceeds(r) /\ UNCHANGED log
  \/ /\ ReturnUnavailable
     /\ log' = Logged(Entry("none", None, NoResponse, 0, last_error))
  \/ \E failAt \in 0..Len(response.tool_calls) :
        /\ ProcessToolCalls(failAt)
        /\ log' = Logged(Entry("response", None, response, failAt, None))
  \/ /\ ReturnContent
     /\ log' = Logged(Entry("response", None, response, 0, None))
  \/ Switch

SpecTurns == InitTurns /\ [][NextTurns]_vars

\* what a call of chat shows to its caller and keeps as its transcript
Shown(pos, msgs, res) == [pc |-> pos, messages |-> msgs, result |-> res]

\* one step of a call of chat that runs alone on history h, from a
AloneStep(h, a, e) ==
  CASE e.op = "chat" ->
         Shown("running", <<SystemMessage>> \o h \o <<UserMessage(e.message)>>, None)
    [] e.op = "none" ->
         Shown("exhausted", a.messages, UnavailableResult(e.last_error))
    [] e.op = "response" /\ ~WantsTools(e.response) ->
         Shown("done", a.messages, e.response.content)
    [] OTHER ->
         LET out == handle_tool_call(e.response.tool_calls, e.failAt)
         IN  IF out.exc # None
             THEN Shown("raised", a.messages, out.exc)
             ELSE Shown("running", Extend(a.messages, e.response, out.results), a.result)

RECURSIVE AloneFrom(_, _, _, _)
AloneFrom(h, lg, i, a) ==
  IF i > Len(lg) THEN a ELSE AloneFrom(h, lg, i + 1, AloneStep(h, a, lg[i]))

\* the call of chat on history h that is given lg and runs alone
RunAlone(h, lg) == AloneFrom(h, lg, 1, Shown("idle", <<>>, None))

FrameOf(t) == IF t = tid THEN Frame ELSE suspended

\* the same of a turn in flight
ShownOf(t) ==
  LET f == FrameOf(t)
  IN  Shown(IF f.pc \in Running THEN "running" ELSE f.pc, f.messages, f.result)

\* ---- helpers of the properties -------------------------------------------
\* the iterations of the current step that made a completion attempt
Attempted == {i \in 1..Len(scanned) : scanned[i].outcome \in {"ok", "fail"}}

PriorityOf(p) == CHOOSE i \in 1..NumProviders : ChatProviders[i].provider = p

EnvVarOf(p) == ChatProviders[PriorityOf(p)].env_var

\* the for loop of the current step ran to its end without a success
StepWithoutSuccess ==
  /\ Len(scanned) = NumProviders
  /\ \A i \in 1..Len(scanned) : scanned[i].outcome \in {"skip", "fail"}

\* some provider that never fails holds a credential
HasReliableProvider == \E p \in reliable : Truthy(env[EnvVarOf(p)])

IsRecordTool(name) == name \in {"record_user_details", "record_unknown_question"}

\* a request for a recording tool whose arguments parse but do not fit the
\* tool's parameters (a required one missing, or an unknown key)
MalformedArgs(tc) ==
  /\ IsRecordTool(tc.name)
  /\ tc.arguments.valid
  /\ ~(Required(tc.name) \subseteq Keys(tc.arguments.obj)
       /\ Keys(tc.arguments.obj) \subseteq Required(tc.name) \cup Optional(tc.name))

\* a request for a recording tool whose arguments fit its parameters
WellFormedRecord(tc) ==
  /\ IsRecordTool(tc.name)
  /\ tc.arguments.valid
  /\ ~MalformedArgs(tc)

Count(seq, Test(_)) == Cardinality({i \in 1..Len(seq) : Test(seq[i])})

IsToolMsg(m) == m.role = "tool"

IsRecordedOk(m) == m.role = "tool" /\ m.content = "{\"recorded\": \"ok\"}"

IsRecordNote(text) == text[1] = "Recording"

\* the requests for the recording tools that the turn has handed to
\* handle_tool_call: those of the assistant messages appended, and those of
\* the response whose processing raised
RecordRequestsInvoked ==
  LET inMsg(m) == IF m.role = "assistant"
                  THEN Count(m.tool_calls, LAMBDA tc : IsRecordTool(tc.name)) ELSE 0
      RECURSIVE Sum(_)
      Sum(k) == IF k = 0 THEN 0 ELSE inMsg(Appended[k]) + Sum(k - 1)
  IN  Sum(Len(Appended))
      + (IF pc = "raised"
         THEN Count(response.tool_calls, LAMBDA tc : IsRecordTool(tc.name)) ELSE 0)

\* ---- C1 -------------------------------------------------------------------
\* C1: when every provider of a step was skipped for want of a credential or
\* failed its attempt, chat returns exactly OUT_OF_TOKENS_MESSAGE, the same
\* value whether providers were skipped or errored.
C1_AllFailReturnsUnavailable ==
  /\ (pc = "dispatch" /\ StepWithoutSuccess) => response = NoResponse
  /\ (pc \in Terminal /\ StepWithoutSuccess) =>
        (pc = "exhausted" /\ result = OUT_OF_TOKENS_MESSAGE)
  /\ pc = "exhausted" => (StepWithoutSuccess /\ result = OUT_OF_TOKENS_MESSAGE)

\* a turn that ended unavailable after an errored provider and a skipped one
C1_Witness ==
  /\ pc = "exhausted"
  /\ \E i \in 1..Len(scanned) : scanned[i].outcome = "fail"
  /\ \E i \in 1..Len(scanned) : scanned[i].outcome = "skip"

\* ---- C2 -------------------------------------------------------------------
\* C2: within one step the first successful attempt wins: it is the last
\* iteration of the step, and no provider of lower priority is attempted.
C2_FirstSuccessWins ==
  \A i \in 1..Len(scanned) :
    scanned[i].outcome = "ok" =>
      /\ i = Len(scanned)
      /\ pc # "scan"
      /\ \A j \in Attempted :
           PriorityOf(scanned[j].provider) <= PriorityOf(scanned[i].provider)

\* a success after a failed attempt, with a credentialed provider below it
C2_Witness ==
  /\ pc = "dispatch"
  /\ Len(scanned) \in 2..(NumProviders - 1)
  /\ scanned[Len(scanned)].outcome = "ok"
  /\ scanned[1].outcome = "fail"
  /\ \E k \in (Len(scanned) + 1)..NumProviders : Truthy(env[ChatProviders[k].env_var])

\* ---- C3 -------------------------------------------------------------------
\* C3 as stated: over one whole turn each provider is attempted at most once.
C3_OncePerTurn == \A p \in ProviderNames : attempts[p] <= 1

\* C3 amended: within one step each provider is attempted at most once, so
\* over a turn a provider is attempted at most once per step.
C3_OncePerStep ==
  /\ \A p \in ProviderNames :
       Cardinality({i \in Attempted : scanned[i].provider = p}) <= 1
  /\ \A p \in ProviderNames : attempts[p] <= Rounds + 1

\* a provider attempted in two steps of one turn
C3_Witness ==
  /\ Rounds = 1
  /\ attempts["openai"] = 2

\* ---- C4 -------------------------------------------------------------------
\* C4: a chat invocation that ends hands its caller a final assistant text or
\* the fixed unavailable message, never an exception or a non-text value.
C4_TextOrUnavailable ==
  pc \in Terminal =>
    /\ pc # "raised"
    /\ result \in Texts \cup {OUT_OF_TOKENS_MESSAGE}

\* ---- C5 -------------------------------------------------------------------
\* C5: the tool-processing step of a response with N requests appends the
\* assistant message and exactly N tool messages, the i-th with the i-th
\* request's call id.
C5_NToolMessages ==
  [][ (pc = "dispatch" /\ response # NoResponse /\ WantsTools(response)) =>
        LET n == Len(response.tool_calls)
            base == Len(messages)
        IN  /\ Len(messages') = base + 1 + n
            /\ \A i \in 1..n :
                 /\ messages'[base + 1 + i].role = "tool"
                 /\ messages'[base + 1 + i].tool_call_id = response.tool_calls[i].id
    ]_vars

\* ---- C6 -------------------------------------------------------------------
\* C6: a response whose first request has malformed arguments does not raise:
\* the request is answered with an empty result and the turn goes on.
C6_MalformedDoesNotRaise ==
  [][ (pc = "dispatch" /\ response # NoResponse /\ WantsTools(response)
       /\ MalformedArgs(response.tool_calls[1])) =>
        /\ pc' = "scan"
        /\ messages'[Len(messages) + 2].content = JsonDumps("EMPTY")
    ]_vars

\* ---- C7 -------------------------------------------------------------------
\* C7: a failure of the notifier does not reach the chat loop: a response all
\* of whose requests are well-formed requests for the recording tools is
\* processed to the end, whatever requests.post does.
C7_NotifierFailureContained ==
  [][ (pc = "dispatch" /\ response # NoResponse /\ WantsTools(response)
       /\ \A i \in 1..Len(response.tool_calls) : WellFormedRecord(response.tool_calls[i])) =>
        /\ pc' = "scan"
        /\ Len(messages') = Len(messages) + 1 + Len(response.tool_calls)
    ]_vars

C9_Termination ==
  /\ (pc \in Running) ~> (pc \in Terminal)
  /\ [][ (pc = "dispatch" /\ response.finish_reason = "tool_calls") =>
           (pc' = "raised" \/ (pc' = "scan" /\ idx' = 1)) ]_vars

\* a turn that ended after as many rounds as the providers asked for
C9_Witness ==
  /\ pc = "done"
  /\ Rounds = MaxScanCalls

\* ---- C10 ------------------------------------------------------------------
\* C10: every request for a recording tool handed to handle_tool_call gives
\* exactly one notification and one {recorded: ok} result.
C10_OneNotificationPerRequest ==
  /\ Count(pushed, IsRecordNote) = RecordRequestsInvoked
  /\ Count(Appended, IsRecordedOk) = RecordRequestsInvoked

\* ---- C11 ------------------------------------------------------------------
\* the priority order the docstring of get_external_llm_key states
DocumentedOrder ==
  << <<"openai", "OPENAI_API_KEY">>, <<"groq", "GROQ_API_KEY">>,
     <<"gemini", "GEMINI_API_KEY">>, <<"deepseek", "DEEPSEEK_API_KEY">> >>

\* the positions of DocumentedOrder whose variable holds a non-empty value
PresentIn(e) == {i \in 1..Len(DocumentedOrder) : e[DocumentedOrder[i][2]] \notin {Unset, ""}}

\* C11: get_external_llm_key returns the first provider, in the order openai,
\* groq, gemini, deepseek, whose credential is present and non-empty, with
\* that credential; it signals that none is available when none is present;
\* and a call changes nothing but its own result.
C11_ResolverFirstPresent ==
  /\ [](resolved # NotCalled =>
          IF PresentIn(env) = {}
          THEN resolved = RaisedRuntimeError
          ELSE \E i \in PresentIn(env) :
                 /\ \A j \in PresentIn(env) : i <= j
                 /\ resolved = Returned(DocumentedOrder[i][1], env[DocumentedOrder[i][2]]))
  /\ [][resolved' # resolved =>
          UNCHANGED << pc, env, envChanges, reliable, history, messages, idx,
                       response, last_error, scanned, attempts, pushed, result >>]_vars

\* gemini resolved past an empty and an unset credential
C11_Witness ==
  /\ resolved.provider = "gemini"
  /\ env["OPENAI_API_KEY"] = ""
  /\ env["GROQ_API_KEY"] = Unset

\* ---- C20 ------------------------------------------------------------------
\* the scan of the current step is over
StepOver == pc \in {"dispatch"} \cup Terminal

\* C20: under one environment the provider get_external_llm_key returns is
\* the provider of the first completion attempt of a step of Me.chat, and it
\* raises exactly when a step makes no attempt.
C20_ResolverAgreesWithChat ==
  resolved # NotCalled =>
    /\ \A i \in Attempted :
         (\A j \in Attempted : i <= j) => scanned[i].provider = resolved.provider
    /\ StepOver => (resolved = RaisedRuntimeError <=> Attempted = {})

\* both chose groq, below an openai without credential
C20_Witness ==
  /\ resolved.provider = "groq"
  /\ pc = "dispatch"
  /\ Len(scanned) >= 2
  /\ scanned[1].outcome = "skip"
  /\ scanned[2].outcome \in {"ok", "fail"}

\* ---- C12 ------------------------------------------------------------------
\* the credentialed providers below position i of the provider list
CredentialedBelow(i) ==
  {k \in (i + 1)..NumProviders : Truthy(env[ChatProviders[k].env_var])}

\* C12: after a failed attempt the next credentialed provider of lower
\* priority is attempted in the same step; the failure neither ends the turn
\* nor shows in the value returned.
C12_FailureFallsThrough ==
  /\ \A i \in 1..Len(scanned) :
       (scanned[i].outcome = "fail" /\ StepOver
        /\ CredentialedBelow(PriorityOf(scanned[i].provider)) # {}) =>
          \E j \in Attempted :
            /\ j > i
            /\ PriorityOf(scanned[j].provider) \in CredentialedBelow(PriorityOf(scanned[i].provider))
            /\ \A k \in CredentialedBelow(PriorityOf(scanned[i].provider)) :
                 PriorityOf(scanned[j].provider) <= k
  /\ (pc \in Terminal /\ last_error # None) => result # last_error

\* openai failed, groq had no credential, gemini answered
C12_Witness ==
  /\ pc = "done"
  /\ Len(scanned) = 3
  /\ scanned[1].outcome = "fail"
  /\ scanned[2].outcome = "skip"
  /\ scanned[3].outcome = "ok"
  /\ result \in Texts

\* ---- C13 ------------------------------------------------------------------
\* the value the environment holds now for the provider the for loop is at
KeyNow == env[ChatProviders[idx].env_var]

\* C13: an attempt is made only on the provider the loop is at and only if
\* the environment holds a non-empty credential for it at that moment; with
\* none, or an empty one, the iteration does nothing but move on.
C13_CredentialReadAtAttempt ==
  /\ [][ (pc = "scan" /\ attempts' # attempts) =>
           /\ KeyNow \notin {Unset, ""}
           /\ attempts' = [attempts EXCEPT ![ChatProviders[idx].provider] = @ + 1] ]_vars
  /\ [][ (pc = "scan" /\ scanned' # scanned /\ KeyNow \in {Unset, ""}) =>
           /\ scanned' = Append(scanned, [provider |-> ChatProviders[idx].provider,
                                          outcome |-> "skip"])
           /\ UNCHANGED << attempts, last_error, response, messages, pushed, result >> ]_vars

\* openai answered the first step, lost its credential, and is skipped in
\* the second step of the same turn
C13_Witness ==
  /\ envChanges = 1
  /\ Rounds = 1
  /\ attempts["openai"] = 1
  /\ Len(scanned) >= 1
  /\ scanned[1].outcome = "skip"
  /\ attempts["groq"] = 0

\* ---- C14 ------------------------------------------------------------------
\* C14: every step, the first of a turn and each one that follows a tool-call
\* round, scans the provider list from its first row in order, whichever
\* provider answered the step before.
C14_ScanRestartsFromTop ==
  /\ \A i \in 1..Len(scanned) : scanned[i].provider = ChatProviders[i].provider
  /\ pc = "scan" => idx = Len(scanned) + 1

\* groq answered the first step after openai failed; openai answers the
\* second step
C14_Witness ==
  /\ Rounds = 1
  /\ pc = "dispatch"
  /\ scanned = << [provider |-> "openai", outcome |-> "ok"] >>
  /\ attempts["openai"] = 2
  /\ attempts["groq"] = 1

\* ---- C15 ------------------------------------------------------------------
\* C15: the answer a turn ends with is the text of a response that carries no
\* tool call request; a response that carries requests is never the final
\* answer.
C15_NoUnexecutedToolCalls ==
  pc = "done" =>
    /\ response.tool_calls = <<>>
    /\ result = response.content
    /\ result \in Texts

\* ---- C16 ------------------------------------------------------------------
\* the requests of the assistant messages before position k that carry id
RequestsBefore(k, id) ==
  UNION { { <<a, j>> : j \in {j \in 1..Len(Appended[a].tool_calls) :
                                Appended[a].tool_calls[j].id = id} }
          : a \in {a \in 1..(k - 1) : Appended[a].role = "assistant"} }

\* C16: every tool message of the turn answers exactly one earlier request,
\* and between the assistant message of that request and the tool message
\* stand only tool messages that answer requests of the same assistant
\* message.
C16_ToolMessageFollowsRequest ==
  \A k \in 1..Len(Appended) :
    Appended[k].role = "tool" =>
      /\ Cardinality(RequestsBefore(k, Appended[k].tool_call_id)) = 1
      /\ \A aj \in RequestsBefore(k, Appended[k].tool_call_id) :
           \A m \in (aj[1] + 1)..(k - 1) :
             /\ Appended[m].role = "tool"
             /\ \E j \in 1..Len(Appended[aj[1]].tool_calls) :
                  Appended[aj[1]].tool_calls[j].id = Appended[m].tool_call_id

\* an assistant message with two requests, followed by its two tool messages
C16_Witness ==
  /\ Len(Appended) = 3
  /\ Appended[1].role = "assistant"
  /\ Len(Appended[1].tool_calls) = 2
  /\ Appended[2].role = "tool"
  /\ Appended[3].role = "tool"
  /\ Appended[3].tool_call_id = Appended[1].tool_calls[2].id

\* ---- C17 ------------------------------------------------------------------
\* C17: the transcript of a turn is the system message, the caller's history
\* and the new user message, followed by what the turn appended; a step of
\* the turn only appends to it.
C17_AppendOnly ==
  /\ [](pc # "idle" =>
          /\ Len(messages) >= Len(history) + 2
          /\ messages[1] = SystemMessage
          /\ SubSeq(messages, 2, Len(history) + 1) = history
          /\ messages[Len(history) + 2] \in {UserMessage(m) : m \in UserTexts})
  /\ [][ (pc \in Running) =>
           (Len(messages') >= Len(messages)
            /\ SubSeq(messages', 1, Len(messages)) = messages) ]_vars

\* a turn on a non-empty history that ended after two tool-call rounds
C17_Witness ==
  /\ pc = "done"
  /\ history # <<>>
  /\ Rounds = 2
  /\ Len(messages) = Len(history) + 2 + 4

\* ---- C18 ------------------------------------------------------------------
\* C18: a response whose one request names no registered tool (its arguments
\* parse) runs nothing: the request is answered by a tool message with the
\* empty result and its call id, no notification is sent, the turn goes on.
C18_UnknownToolIsNoOp ==
  [][ (pc = "dispatch" /\ response # NoResponse /\ WantsTools(response)
       /\ Len(response.tool_calls) = 1
       /\ ~IsRecordTool(response.tool_calls[1].name)
       /\ response.tool_calls[1].arguments.valid) =>
        /\ pc' = "scan"
        /\ pushed' = pushed
        /\ messages' = Append(Append(messages, AssistantMessage(response)),
                              [role |-> "tool", content |-> "{}",
                               tool_call_id |-> response.tool_calls[1].id])
    ]_vars

\* ---- C19 ------------------------------------------------------------------
\* C19: chat never writes to the history list it was handed, and of two
\* turns started from that list and interleaved in any way, each has the
\* transcript and the outcome of the same turn running alone.
C19_TurnsIndependent ==
  /\ [][history' = history]_vars
  /\ [](\A t \in Turns : ShownOf(t) = RunAlone(given, log[t]))

\* turn 1 has appended a round of tool messages and waits in the middle of
\* its next step; turn 2 began after that and ran to its last line, with a
\* round of its own
C19_Witness ==
  /\ tid = 2
  /\ given # <<>>
  /\ suspended.pc \in Running
  /\ Len(suspended.messages) = Len(given) + 4
  /\ pc = "done"
  /\ Len(messages) = Len(given) + 4
  /\ Len(log[2]) = 3

====
